---- MODULE Spec2Model ----
(***************************************************************************)
(* Model of slack-knowledge-assistant.py: the Slack handlers, the         *)
(* ResponseGenerator, the KnowledgeBase (Confluence search and LLM-driven  *)
(* database query) and the ContentFilter.                                  *)
(*                                                                         *)
(* Text is a sequence of one-character strings, so that str.strip,         *)
(* str.lower, str.startswith, str.split and re.search are computed on the  *)
(* characters as Python computes them.  The external collaborators (Slack, *)
(* the LLM, Confluence, PostgreSQL) are nondeterministic: every call picks *)
(* one of the outcomes the library can produce (a value or an exception).  *)
(***************************************************************************)
EXTENDS Integers, Sequences, FiniteSets, TLC

VARIABLES
    allowed_tables,     \* config['postgres']['allowed_tables']
    pc,                 \* position of the one request being handled
    event,              \* the Slack event passed to the handler
    query,              \* the question extracted from the event
    raw_results,        \* what confluence.search returned
    confluence_results, \* KnowledgeBase.search_confluence's return value
    sql_prompt,         \* the prompt asking the LLM for SQL
    completion,         \* text of the LLM completion for the SQL prompt
    sql_query,          \* the stripped completion
    connections,        \* number of get_db_connection() calls that connected
    executed,           \* statements passed to cur.execute, in order
    columns,            \* column names of cur.description
    rows,               \* cur.fetchall()
    db_results,         \* KnowledgeBase.query_database's return value
    context,            \* the synthesis prompt
    generated_text,     \* stripped LLM answer
    response,           \* ResponseGenerator.generate_response's return value
    exc,                \* the exception in flight, or the last one raised
    ret,                \* how each call of the request ended
    replies,            \* texts passed to say(), in order
    printed             \* what print() was given, in order

vars == <<allowed_tables, pc, event, query, raw_results, confluence_results,
          sql_prompt, completion, sql_query, connections, executed, columns, rows, db_results,
          context, generated_text, response, exc, ret, replies, printed>>

(***************************************************************************)
(* Bounds of the model.                                                    *)
(***************************************************************************)
MaxResults == 2     \* longest list the wiki provider returns in the model
MaxRows == 2        \* longest list of rows the executor returns in the model

(***************************************************************************)
(* Python string primitives.                                               *)
(***************************************************************************)
Min(a, b) == IF a <= b THEN a ELSE b

SeqsUpTo(S, n) == UNION {[1..k -> S] : k \in 0..n}

UpperCase == <<"A", "B", "C", "D", "E", "F", "G", "H", "I", "J", "K", "L", "M",
               "N", "O", "P", "Q", "R", "S", "T", "U", "V", "W", "X", "Y", "Z">>

LowerCase == <<"a", "b", "c", "d", "e", "f", "g", "h", "i", "j", "k", "l", "m",
               "n", "o", "p", "q", "r", "s", "t", "u", "v", "w", "x", "y", "z">>

Whitespace == {" ", "\t", "\n", "\r"}

\* str.lower() on one character
LowerChar(c) ==
    IF \E i \in 1..Len(UpperCase) : UpperCase[i] = c
    THEN LowerCase[CHOOSE i \in 1..Len(UpperCase) : UpperCase[i] = c]
    ELSE c

\* str.lower()
Lower(text) == [i \in 1..Len(text) |-> LowerChar(text[i])]

\* str.strip(): drop the leading and the trailing whitespace
Strip(text) ==
    LET inked == {i \in 1..Len(text) : text[i] \notin Whitespace}
    IN  IF inked = {} THEN <<>>
        ELSE LET first == CHOOSE i \in inked : \A j \in inked : i <= j
                 last  == CHOOSE i \in inked : \A j \in inked : j <= i
             IN  SubSeq(text, first, last)

\* str.startswith(prefix)
StartsWith(text, prefix) ==
    /\ Len(prefix) <= Len(text)
    /\ SubSeq(text, 1, Len(prefix)) = prefix

\* text.split(sep, 1): one element when sep does not occur, else two
Split1(text, sep) ==
    LET at == {i \in 1..Len(text) : text[i] = sep}
    IN  IF at = {} THEN <<text>>
        ELSE LET i == CHOOSE k \in at : \A j \in at : k <= j
             IN  <<SubSeq(text, 1, i - 1), SubSeq(text, i + 1, Len(text))>>

\* decimal digits of a natural number
RECURSIVE Digits(_)
Digits(n) ==
    LET d == <<"0", "1", "2", "3", "4", "5", "6", "7", "8", "9">>[(n % 10) + 1]
    IN  IF n < 10 THEN <<d>> ELSE Append(Digits(n \div 10), d)

(***************************************************************************)
(* Values of a database row: text, integer or NULL.  str(value) is what    *)
(* the filter sees.                                                        *)
(***************************************************************************)
StrValue(s)  == [t |-> "str", s |-> s, n |-> 0]
IntValue(n)  == [t |-> "int", s |-> <<>>, n |-> n]
NoneValue    == [t |-> "none", s |-> <<>>, n |-> 0]

\* str(value)
Str(v) ==
    CASE v.t = "str"  -> v.s
      [] v.t = "int"  -> IF v.n < 0 THEN <<"-">> \o Digits(0 - v.n) ELSE Digits(v.n)
      [] v.t = "none" -> <<"N", "o", "n", "e">>

(***************************************************************************)
(* Regular expressions of ContentFilter: a pattern is a sequence of        *)
(* elements, each a literal character or '.', possibly optional ('?'),     *)
(* matched case-insensitively ((?i)).                                      *)
(***************************************************************************)
Lit(s) == [i \in 1..Len(s) |-> [c |-> s[i], any |-> FALSE, opt |-> FALSE]]
OptChar(c) == <<[c |-> c, any |-> FALSE, opt |-> TRUE]>>
OptAny == <<[c |-> ".", any |-> TRUE, opt |-> TRUE]>>

\* one pattern element against one character, under re.IGNORECASE;
\* '.' matches anything but a newline
ElementMatches(e, ch) ==
    IF e.any THEN ch # "\n" ELSE LowerChar(ch) = LowerChar(e.c)

\* elements j.. of pat match text starting at position i
RECURSIVE MatchFrom(_, _, _, _)
MatchFrom(pat, text, i, j) ==
    IF j > Len(pat) THEN TRUE
    ELSE \/ pat[j].opt /\ MatchFrom(pat, text, i, j + 1)
         \/ /\ i <= Len(text)
            /\ ElementMatches(pat[j], text[i])
            /\ MatchFrom(pat, text, i + 1, j + 1)

\* re.search(pattern, text) is not None
re_search(pat, text) == \E i \in 1..(Len(text) + 1) : MatchFrom(pat, text, i, 1)

\* ContentFilter.blocked_patterns
blocked_patterns == <<
    Lit(<<"p", "a", "s", "s", "w", "o", "r", "d">>) \o OptChar("s"),
    Lit(<<"c", "r", "e", "d", "i", "t">>) \o OptAny \o Lit(<<"c", "a", "r", "d">>),
    Lit(<<"s", "s", "n">>),
    Lit(<<"s", "o", "c", "i", "a", "l">>) \o OptAny
        \o Lit(<<"s", "e", "c", "u", "r", "i", "t", "y">>) >>

\* ContentFilter.is_safe_content
is_safe_content(text) ==
    \A p \in 1..Len(blocked_patterns) : ~re_search(blocked_patterns[p], text)

(***************************************************************************)
(* Inputs: the events Slack delivers and the outcomes the collaborators    *)
(* produce.                                                                *)
(***************************************************************************)
NoText == <<>>

\* "<@U1> vpn? ", "vpn?"
MentionText == <<"<", "@", "U", "1", ">", " ", "v", "p", "n", "?", " ">>
PlainText   == <<"v", "p", "n", "?">>

Event(type, channel_type, has_text, text) ==
    [type |-> type, channel_type |-> channel_type, has_text |-> has_text,
     text |-> text]

NoEvent == Event("none", "none", FALSE, NoText)

Events ==
    { Event("app_mention", "channel", TRUE, MentionText),
      Event("app_mention", "channel", TRUE, PlainText),
      Event("app_mention", "channel", FALSE, NoText),
      Event("message", "im", TRUE, PlainText),
      Event("message", "im", FALSE, NoText),
      Event("message", "channel", TRUE, PlainText) }

\* config['postgres']['allowed_tables']
TableConfigs == { <<>>, <<"users">> }

\* a result of confluence.search: 'content' may be absent
WikiResult(title, has_content, content, excerpt, url) ==
    [title |-> title, has_content |-> has_content, content |-> content,
     excerpt |-> excerpt, url |-> url]

WikiResults ==
    { \* content "VPN guide", excerpt "use the VPN"
      WikiResult("VPN", TRUE, <<"V", "P", "N", " ", "g", "u", "i", "d", "e">>,
                 <<"u", "s", "e", " ", "t", "h", "e", " ", "V", "P", "N">>, "/x/1"),
      \* content "root Password", excerpt "see page"
      WikiResult("Admin", TRUE,
                 <<"r", "o", "o", "t", " ", "P", "a", "s", "s", "w", "o", "r", "d">>,
                 <<"s", "e", "e", " ", "p", "a", "g", "e">>, "/x/2"),
      \* content "summary", excerpt "SSN: 1"
      WikiResult("HR", TRUE, <<"s", "u", "m", "m", "a", "r", "y">>,
                 <<"S", "S", "N", ":", " ", "1">>, "/x/3"),
      \* no content, excerpt "credit-card"
      WikiResult("Pay", FALSE, NoText,
                 <<"c", "r", "e", "d", "i", "t", "-", "c", "a", "r", "d">>, "/x/4") }

\* completions the LLM returns for the SQL prompt:
\* "  SeLeCt 1\n", "select", "DROP TABLE users;", "", " \t", "selec", "x select"
SqlCompletions ==
    { <<" ", " ", "S", "e", "L", "e", "C", "t", " ", "1", "\n">>,
      <<"s", "e", "l", "e", "c", "t">>,
      <<"D", "R", "O", "P", " ", "T", "A", "B", "L", "E", " ", "u", "s", "e", "r", "s", ";">>,
      <<>>,
      <<" ", "\t">>,
      <<"s", "e", "l", "e", "c">>,
      <<"x", " ", "s", "e", "l", "e", "c", "t">> }

\* cur.description of a result set: column names may repeat (SELECT a.note, b.note)
ColumnLists == { <<"name", "ssn">>, <<"note", "note">> }

\* rows of two columns
SampleRows ==
    { \* ("Alice", "123-45-6789")
      << StrValue(<<"A", "l", "i", "c", "e">>),
         StrValue(<<"1", "2", "3", "-", "4", "5", "-", "6", "7", "8", "9">>) >>,
      \* ("my passwords", "ok")
      << StrValue(<<"m", "y", " ", "p", "a", "s", "s", "w", "o", "r", "d", "s">>),
         StrValue(<<"o", "k">>) >>,
      \* ("Bob", 42)
      << StrValue(<<"B", "o", "b">>), IntValue(42) >>,
      \* (None, "Credit Card")
      << NoneValue,
         StrValue(<<"C", "r", "e", "d", "i", "t", " ", "C", "a", "r", "d">>) >> }

\* completions the LLM returns for the synthesis prompt:
\* " It is 42.\n", "the password is x"
AnswerCompletions ==
    { <<" ", "I", "t", " ", "i", "s", " ", "4", "2", ".", "\n">>,
      <<"t", "h", "e", " ", "p", "a", "s", "s", "w", "o", "r", "d", " ", "i", "s", " ", "x">> }

\* confluence.search(query, limit=5)
limit == 5

\* "I apologize, but I encountered an error processing your request. Please
\* try again or rephrase your question."
Apology ==
    <<"I", " ", "a", "p", "o", "l", "o", "g", "i", "z", "e", ",", " ", "b", "u", "t", " ", "I", " ", "e", "n", "c", "o", "u", "n", "t", "e", "r", "e", "d", " ", "a", "n", " ", "e", "r", "r", "o", "r", " ", "p", "r", "o", "c", "e", "s", "s", "i", "n", "g", " ", "y", "o", "u", "r", " ", "r", "e", "q", "u", "e", "s", "t", ".", " ", "P", "l", "e", "a", "s", "e", " ", "t", "r", "y", " ", "a", "g", "a", "i", "n", " ", "o", "r", " ", "r", "e", "p", "h", "r", "a", "s", "e", " ", "y", "o", "u", "r", " ", "q", "u", "e", "s", "t", "i", "o", "n", ".">>

(***************************************************************************)
(* The state of one request before its handler runs.                       *)
(***************************************************************************)
NoPrompt == [tables |-> <<>>, question |-> NoText]
NoContext == [confluence |-> <<>>, db |-> <<>>, question |-> NoText]
NotCalled == [handler |-> "not_called", generate_response |-> "not_called",
              search_confluence |-> "not_called", query_database |-> "not_called"]

Fresh ==
    /\ pc = "idle"
    /\ event = NoEvent
    /\ query = NoText
    /\ raw_results = <<>>
    /\ confluence_results = <<>>
    /\ sql_prompt = NoPrompt
    /\ completion = NoText
    /\ sql_query = NoText
    /\ connections = 0
    /\ executed = <<>>
    /\ columns = <<>>
    /\ rows = <<>>
    /\ db_results = <<>>
    /\ context = NoContext
    /\ generated_text = NoText
    /\ response = NoText
    /\ exc = "none"
    /\ ret = NotCalled
    /\ replies = <<>>
    /\ printed = <<>>

Init ==
    /\ allowed_tables \in TableConfigs
    /\ Fresh

(***************************************************************************)
(* KnowledgeBase.search_confluence: the loop over the provider's results.  *)
(***************************************************************************)
\* result.get('content', '')
get_content(result) == IF result.has_content THEN result.content ELSE NoText

filtered_results(results) ==
    LET kept == SelectSeq(results, LAMBDA r : is_safe_content(get_content(r)))
    IN  [i \in 1..Len(kept) |->
            [title |-> kept[i].title, excerpt |-> kept[i].excerpt,
             url |-> kept[i].url]]

(***************************************************************************)
(* KnowledgeBase.query_database: the guard and the loop over the rows.     *)
(***************************************************************************)
\* a guard that looks for the keyword anywhere: 'select' in sql_query.lower()
is_select_anywhere(sql) ==
    \E i \in 1..Len(sql) :
        /\ i + 5 <= Len(sql)
        /\ SubSeq(Lower(sql), i, i + 5) = <<"s", "e", "l", "e", "c", "t">>

\* sql_query.lower().startswith('select')
is_select(sql) == StartsWith(Lower(sql), <<"s", "e", "l", "e", "c", "t">>)

\* dict(zip(columns, row)): the keys in order of first appearance, each with
\* the value of its last appearance
dict_zip(cols, row) ==
    LET n == Min(Len(cols), Len(row))
        firsts == SelectSeq([i \in 1..n |-> i],
                            LAMBDA i : \A j \in 1..(i - 1) : cols[j] # cols[i])
        last(k) == CHOOSE j \in 1..n :
                      cols[j] = k /\ \A m \in (j + 1)..n : cols[m] # k
    IN  [p \in 1..Len(firsts) |->
            [key |-> cols[firsts[p]], value |-> row[last(cols[firsts[p]])]]]

\* all(is_safe_content(str(value)) for value in result.values())
all_values_safe(result) ==
    \A p \in 1..Len(result) : is_safe_content(Str(result[p].value))

\* the results list built from cur.description and cur.fetchall()
safe_rows(cols, fetched) ==
    LET dicts == [i \in 1..Len(fetched) |-> dict_zip(cols, fetched[i])]
    IN  SelectSeq(dicts, all_values_safe)

(***************************************************************************)
(* ResponseGenerator.generate_response: the source attribution.            *)
(***************************************************************************)
RECURSIVE Join(_, _)
\* sep.join(parts)
Join(sep, parts) ==
    IF parts = <<>> THEN <<>>
    ELSE IF Len(parts) = 1 THEN parts[1]
    ELSE parts[1] \o sep \o Join(sep, Tail(parts))

\* a sources list that names the database whenever the query stage ran
sources_unconditional(wiki, db) ==
    (IF wiki # <<>> THEN << <<"C", "o", "n", "f", "l", "u", "e", "n", "c", "e">> >>
     ELSE <<>>)
    \o
    << <<"i", "n", "t", "e", "r", "n", "a", "l", " ",
         "d", "a", "t", "a", "b", "a", "s", "e">> >>

\* the sources list
sources(wiki, db) ==
    (IF wiki # <<>> THEN << <<"C", "o", "n", "f", "l", "u", "e", "n", "c", "e">> >>
     ELSE <<>>)
    \o
    (IF db # <<>>
     THEN << <<"i", "n", "t", "e", "r", "n", "a", "l", " ",
               "d", "a", "t", "a", "b", "a", "s", "e">> >>
     ELSE <<>>)

\* f"\n\nSources: {' and '.join(sources)}", or nothing
attribution(wiki, db) ==
    IF sources(wiki, db) # <<>>
    THEN <<"\n", "\n", "S", "o", "u", "r", "c", "e", "s", ":", " ">>
         \o Join(<<" ", "a", "n", "d", " ">>, sources(wiki, db))
    ELSE <<>>

(***************************************************************************)
(* The handlers, one action per step between two calls of a collaborator.  *)
(***************************************************************************)
\* an exception leaves generate_response and reaches the handler's except
Propagate(e, calls) ==
    /\ exc' = e
    /\ ret' = [c \in DOMAIN ret |-> IF c \in calls THEN "raised" ELSE ret[c]]
    /\ pc' = "except"

\* handle_mention up to the call of generate_response
handle_mention(e) ==
    /\ pc = "idle"
    /\ e.type = "app_mention"
    /\ event' = e
    /\ IF ~e.has_text
       THEN /\ exc' = "KeyError"
            /\ ret' = [ret EXCEPT !.handler = "running"]
            /\ pc' = "except"
            /\ UNCHANGED query
       ELSE IF Len(Split1(e.text, ">")) < 2
       THEN /\ exc' = "IndexError"
            /\ ret' = [ret EXCEPT !.handler = "running"]
            /\ pc' = "except"
            /\ UNCHANGED query
       ELSE /\ query' = Strip(Split1(e.text, ">")[2])
            /\ ret' = [ret EXCEPT !.handler = "running",
                                  !.generate_response = "running",
                                  !.search_confluence = "running"]
            /\ pc' = "search_confluence"
            /\ UNCHANGED exc
    /\ UNCHANGED <<allowed_tables, raw_results, confluence_results, sql_prompt,
                   completion, sql_query, connections, executed, columns, rows,
                   db_results, context, generated_text, response, replies,
                   printed>>

\* handle_message up to the call of generate_response
handle_message(e) ==
    /\ pc = "idle"
    /\ e.type = "message"
    /\ event' = e
    /\ IF e.channel_type # "im"
       THEN /\ ret' = [ret EXCEPT !.handler = "returned"]
            /\ pc' = "returned"
            /\ UNCHANGED <<query, exc>>
       ELSE IF ~e.has_text
       THEN /\ exc' = "KeyError"
            /\ ret' = [ret EXCEPT !.handler = "running"]
            /\ pc' = "except"
            /\ UNCHANGED query
       ELSE /\ query' = e.text
            /\ ret' = [ret EXCEPT !.handler = "running",
                                  !.generate_response = "running",
                                  !.search_confluence = "running"]
            /\ pc' = "search_confluence"
            /\ UNCHANGED exc
    /\ UNCHANGED <<allowed_tables, raw_results, confluence_results, sql_prompt,
                   completion, sql_query, connections, executed, columns, rows,
                   db_results, context, generated_text, response, replies,
                   printed>>

\* KnowledgeBase.search_confluence, called first by generate_response
search_confluence ==
    /\ pc = "search_confluence"
    /\ \/ /\ Propagate("ConfluenceError", {"search_confluence", "generate_response"})
          /\ UNCHANGED <<raw_results, confluence_results>>
       \/ \E results \in SeqsUpTo(WikiResults, Min(MaxResults, limit)) :
             /\ raw_results' = results
             /\ confluence_results' = filtered_results(results)
             /\ ret' = [ret EXCEPT !.search_confluence = "returned",
                                   !.query_database = "running"]
             /\ pc' = "translate"
             /\ UNCHANGED exc
    /\ UNCHANGED <<allowed_tables, event, query, sql_prompt, completion,
                   sql_query, connections, executed, columns, rows, db_results,
                   context, generated_text, response, replies, printed>>

\* KnowledgeBase.query_database: the prompt, the LLM call and the guard
query_database_translate ==
    /\ pc = "translate"
    /\ sql_prompt' = [tables |-> allowed_tables, question |-> query]
    /\ \/ /\ Propagate("OracleError", {"query_database", "generate_response"})
          /\ UNCHANGED <<completion, sql_query, db_results>>
       \/ \* the response has no ['choices'][0]['text']
          /\ Propagate("KeyError", {"query_database", "generate_response"})
          /\ UNCHANGED <<completion, sql_query, db_results>>
       \/ \E text \in SqlCompletions :
             /\ completion' = text
             /\ sql_query' = Strip(text)
             /\ IF ~is_select(Strip(text))
                THEN /\ db_results' = <<>>
                     /\ ret' = [ret EXCEPT !.query_database = "returned"]
                     /\ pc' = "synthesize"
                ELSE /\ pc' = "connect"
                     /\ UNCHANGED <<db_results, ret>>
             /\ UNCHANGED exc
    /\ UNCHANGED <<allowed_tables, event, query, raw_results, confluence_results,
                   connections, executed, columns, rows, context,
                   generated_text, response, replies, printed>>

\* get_db_connection(), called by query_database outside its try
get_db_connection ==
    /\ pc = "connect"
    /\ \/ /\ Propagate("OperationalError", {"query_database", "generate_response"})
          /\ UNCHANGED connections
       \/ /\ connections' = connections + 1
          /\ pc' = "execute"
          /\ UNCHANGED <<exc, ret>>
    /\ UNCHANGED <<allowed_tables, event, query, raw_results, confluence_results,
                   sql_prompt, completion, sql_query, executed, columns, rows,
                   db_results, context, generated_text, response, replies,
                   printed>>

\* KnowledgeBase.query_database: the try block and the return
query_database_execute ==
    /\ pc = "execute"
    /\ executed' = Append(executed, sql_query)
    /\ \/ \* cur.execute raises: bad SQL, missing permission, lost connection
          /\ printed' = Append(printed, [msg |-> "Database query error",
                                         e |-> "DatabaseError"])
          /\ db_results' = <<>>
          /\ UNCHANGED <<columns, rows>>
       \/ \* the statement returns no result set: cur.description is None
          /\ printed' = Append(printed, [msg |-> "Database query error",
                                         e |-> "TypeError"])
          /\ db_results' = <<>>
          /\ UNCHANGED <<columns, rows>>
       \/ \E cols \in ColumnLists, fetched \in SeqsUpTo(SampleRows, MaxRows) :
             /\ columns' = cols
             /\ rows' = fetched
             /\ db_results' = safe_rows(cols, fetched)
             /\ UNCHANGED printed
    /\ ret' = [ret EXCEPT !.query_database = "returned"]
    /\ pc' = "synthesize"
    /\ UNCHANGED <<allowed_tables, event, query, raw_results, confluence_results,
                   sql_prompt, completion, sql_query, connections, context,
                   generated_text, response, exc, replies>>

\* ResponseGenerator.generate_response after both lookups
generate_response ==
    /\ pc = "synthesize"
    /\ context' = [confluence |-> confluence_results, db |-> db_results,
                   question |-> query]
    /\ \/ /\ Propagate("OracleError", {"generate_response"})
          /\ UNCHANGED <<generated_text, response>>
       \/ \* the response has no ['choices'][0]['text']
          /\ Propagate("KeyError", {"generate_response"})
          /\ UNCHANGED <<generated_text, response>>
       \/ \E text \in AnswerCompletions :
             /\ generated_text' = Strip(text)
             /\ response' = Strip(text) \o attribution(confluence_results, db_results)
             /\ ret' = [ret EXCEPT !.generate_response = "returned"]
             /\ pc' = "say"
             /\ UNCHANGED exc
    /\ UNCHANGED <<allowed_tables, event, query, raw_results, confluence_results,
                   sql_prompt, completion, sql_query, connections, executed,
                   columns, rows, db_results, replies, printed>>

\* say(response) in either handler
say_response ==
    /\ pc = "say"
    /\ replies' = Append(replies, response)
    /\ ret' = [ret EXCEPT !.handler = "returned"]
    /\ pc' = "returned"
    /\ UNCHANGED <<allowed_tables, event, query, raw_results, confluence_results,
                   sql_prompt, completion, sql_query, connections, executed,
                   columns, rows, db_results, context, generated_text, response,
                   exc, printed>>

\* an except block that logs the error and sends nothing
handler_except_silent ==
    /\ pc = "except"
    /\ printed' = Append(printed,
                         [msg |-> IF event.type = "app_mention"
                                  THEN "Error processing mention"
                                  ELSE "Error processing message",
                          e |-> exc])
    /\ ret' = [ret EXCEPT !.handler = "returned"]
    /\ pc' = "returned"
    /\ UNCHANGED <<allowed_tables, event, query, raw_results, confluence_results,
                   sql_prompt, completion, sql_query, connections, executed,
                   columns, rows, db_results, context, generated_text, response,
                   exc, replies>>

\* the except block of either handler
handler_except ==
    /\ pc = "except"
    /\ replies' = Append(replies, Apology)
    /\ printed' = Append(printed,
                         [msg |-> IF event.type = "app_mention"
                                  THEN "Error processing mention"
                                  ELSE "Error processing message",
                          e |-> exc])
    /\ ret' = [ret EXCEPT !.handler = "returned"]
    /\ pc' = "returned"
    /\ UNCHANGED <<allowed_tables, event, query, raw_results, confluence_results,
                   sql_prompt, completion, sql_query, connections, executed,
                   columns, rows, db_results, context, generated_text, response,
                   exc>>

\* the handler has returned; the next event starts from a clean request
next_event ==
    /\ pc = "returned"
    /\ pc' = "idle"
    /\ event' = NoEvent
    /\ query' = NoText
    /\ raw_results' = <<>>
    /\ confluence_results' = <<>>
    /\ sql_prompt' = NoPrompt
    /\ completion' = NoText
    /\ sql_query' = NoText
    /\ connections' = 0
    /\ executed' = <<>>
    /\ columns' = <<>>
    /\ rows' = <<>>
    /\ db_results' = <<>>
    /\ context' = NoContext
    /\ generated_text' = NoText
    /\ response' = NoText
    /\ exc' = "none"
    /\ ret' = NotCalled
    /\ replies' = <<>>
    /\ printed' = <<>>
    /\ UNCHANGED allowed_tables

Next ==
    \/ \E e \in Events : handle_mention(e)
    \/ \E e \in Events : handle_message(e)
    \/ search_confluence
    \/ query_database_translate
    \/ get_db_connection
    \/ query_database_execute
    \/ generate_response
    \/ say_response
    \/ handler_except
    \/ next_event

Spec == Init /\ [][Next]_vars

(***************************************************************************)
(* Properties.                                                             *)
(***************************************************************************)

\* the text, once its leading whitespace is skipped, begins with the letters
\* s-e-l-e-c-t in either case
BeginsWithSelect(text) ==
    \E k \in 0..Len(text) :
        /\ \A i \in 1..k : text[i] \in {" ", "\t", "\n", "\r"}
        /\ k + 6 <= Len(text)
        /\ text[k + 1] \in {"s", "S"}
        /\ text[k + 2] \in {"e", "E"}
        /\ text[k + 3] \in {"l", "L"}
        /\ text[k + 4] \in {"e", "E"}
        /\ text[k + 5] \in {"c", "C"}
        /\ text[k + 6] \in {"t", "T"}

\* a connection was asked for or a statement was handed to the cursor
DatabaseTouched ==
    \/ pc \in {"connect", "execute"}
    \/ connections > 0
    \/ executed # <<>>
    \/ ret.query_database = "raised" /\ exc = "OperationalError"

\* C1: query_database asks for a connection and executes a statement only if
\* the trimmed completion begins, case-insensitively, with 'select'; for any
\* other completion it returns the empty list, having opened no connection
\* and executed nothing.
C1_ExecuteOnlySelect ==
    /\ DatabaseTouched => BeginsWithSelect(completion)
    /\ (ret.query_database = "returned" /\ ~BeginsWithSelect(completion))
          => /\ db_results = <<>>
             /\ connections = 0
             /\ executed = <<>>
    /\ (ret.query_database = "raised" /\ ~BeginsWithSelect(completion))
          => /\ completion = NoText
             /\ exc \in {"OracleError", "KeyError"}

\* C1 witness: the completion "DROP TABLE users;" was rejected: query_database
\* returned the empty list without a connection or an execute.
C1_Witness ==
    /\ ret.query_database = "returned"
    /\ completion = <<"D", "R", "O", "P", " ", "T", "A", "B", "L", "E", " ",
                      "u", "s", "e", "r", "s", ";">>
    /\ db_results = <<>>
    /\ connections = 0
    /\ executed = <<>>

\* C2: no text passed to say() contains a match of a blocked pattern.
C2_RepliesPassFilter ==
    \A i \in 1..Len(replies) : is_safe_content(replies[i])

\* C3: every item search_confluence returns has an excerpt that passes
\* is_safe_content.
C3_ExcerptsPassFilter ==
    \A i \in 1..Len(confluence_results) :
        is_safe_content(confluence_results[i].excerpt)

\* positions of the fetched rows all of whose values pass the filter, in order
AllSafeRows ==
    SelectSeq([i \in 1..Len(rows) |-> i],
              LAMBDA i : \A j \in 1..Len(rows[i]) : is_safe_content(Str(rows[i][j])))

\* the value a returned record holds for a column name
Field(record, name) ==
    LET p == CHOOSE q \in 1..Len(record) : record[q].key = name
    IN  record[p].value

\* C4: the list query_database returns holds exactly the rows all of whose
\* stringified values pass the filter, in executor order, every field value
\* unchanged; a row with a failing value is absent as a whole.
C4_ExactlyTheSafeRows ==
    ret.query_database = "returned" =>
        /\ Len(db_results) = Len(AllSafeRows)
        /\ \A p \in 1..Len(db_results) :
              p <= Len(AllSafeRows) =>
                 \A j \in 1..Len(columns) :
                    /\ \E q \in 1..Len(db_results[p]) : db_results[p][q].key = columns[j]
                    /\ Field(db_results[p], columns[j]) = rows[AllSafeRows[p]][j]

\* C5: the row name = "Alice", ssn = "123-45-6789" is dropped by
\* query_database: it is not returned and does not reach the synthesis prompt.
C5_AliceRowDropped ==
    LET alice == StrValue(<<"A", "l", "i", "c", "e">>)
        number == StrValue(<<"1", "2", "3", "-", "4", "5", "-", "6", "7", "8", "9">>)
        holds(record) == \E q \in 1..Len(record) : record[q].value \in {alice, number}
    IN  (columns = <<"name", "ssn">> /\ \E i \in 1..Len(rows) : rows[i] = <<alice, number>>)
           => /\ \A p \in 1..Len(db_results) : ~holds(db_results[p])
              /\ \A p \in 1..Len(context.db) : ~holds(context.db[p])

\* C6: once the guard has accepted the query, no error of the database stage,
\* a failure to open the connection included, leaves query_database: the call
\* returns.
C6_DatabaseErrorsCaught ==
    (BeginsWithSelect(completion) /\ ret.query_database \notin {"not_called", "running"})
        => ret.query_database = "returned"

\* C7: when a source stage fails (the wiki search or the database lookup
\* raises), generate_response still goes on to the synthesis and is not
\* aborted by that failure.
C7_SourceFailureDegrades ==
    (ret.search_confluence = "raised" \/ ret.query_database = "raised")
        => ret.generate_response # "raised"

\* C8: when an exception is raised while the question is extracted or the
\* response generated, the handler sends the fixed apology, and nothing else,
\* and returns.
C8_ApologyOnException ==
    exc # "none" =>
        \/ pc = "except" /\ replies = <<>>
        \/ /\ pc = "returned"
           /\ ret.handler = "returned"
           /\ replies = <<Apology>>

\* C8 witness: the synthesis call of the LLM raised and the handler returned
\* after sending the apology.
C8_Witness ==
    /\ pc = "returned"
    /\ exc = "OracleError"
    /\ ret.query_database = "returned"
    /\ ret.generate_response = "raised"
    /\ ret.handler = "returned"
    /\ replies = <<Apology>>

\* "\n\nSources: Confluence"
WikiSuffix ==
    <<"\n", "\n", "S", "o", "u", "r", "c", "e", "s", ":", " ",
      "C", "o", "n", "f", "l", "u", "e", "n", "c", "e">>

\* "\n\nSources: Confluence and internal database"
BothSuffix ==
    <<"\n", "\n", "S", "o", "u", "r", "c", "e", "s", ":", " ",
      "C", "o", "n", "f", "l", "u", "e", "n", "c", "e", " ", "a", "n", "d", " ",
      "i", "n", "t", "e", "r", "n", "a", "l", " ",
      "d", "a", "t", "a", "b", "a", "s", "e">>

\* C9: with no allowed table configured and one clean excerpt from the wiki,
\* the answer carries the wiki label and no database label, whatever the LLM
\* returns.
C9_NoTablesNoDatabaseLabel ==
    ( /\ allowed_tables = <<>>
      /\ Len(raw_results) = 1
      /\ is_safe_content(get_content(raw_results[1]))
      /\ is_safe_content(raw_results[1].excerpt)
      /\ ret.generate_response = "returned" )
        => response = generated_text \o WikiSuffix

\* the part of the response after the generated text
Suffix == SubSeq(response, Len(generated_text) + 1, Len(response))

\* the text has "internal database" in it
NamesDatabase(text) ==
    \E i \in 1..Len(text) :
        /\ i + 16 <= Len(text)
        /\ SubSeq(text, i, i + 16) = <<"i", "n", "t", "e", "r", "n", "a", "l", " ",
                                       "d", "a", "t", "a", "b", "a", "s", "e">>

\* C10: the suffix of the response depends only on which of the two filtered
\* lists is non-empty: wiki only gives the wiki label, both give the wiki
\* label, "and", the database label, neither gives no suffix; the database
\* label is there only when a record survived the filter.
C10_AttributionSuffix ==
    ret.generate_response = "returned" =>
        /\ SubSeq(response, 1, Len(generated_text)) = generated_text
        /\ (confluence_results # <<>> /\ db_results = <<>>) => Suffix = WikiSuffix
        /\ (confluence_results # <<>> /\ db_results # <<>>) => Suffix = BothSuffix
        /\ (confluence_results = <<>> /\ db_results = <<>>) => Suffix = <<>>
        /\ NamesDatabase(Suffix) => db_results # <<>>

\* C10 witness: an answer was composed from a surviving excerpt and a
\* surviving record.
C10_Witness ==
    /\ ret.generate_response = "returned"
    /\ confluence_results # <<>>
    /\ db_results # <<>>
    /\ response = generated_text \o BothSuffix

====
